---- MODULE Spec2Model ----
(***************************************************************************)
(* Model of src/bot.py: a Telegram bot that relays Terabox share links.    *)
(*                                                                         *)
(* Every inbound text message starts one invocation of handle_message.     *)
(* An invocation is a coroutine; the model gives it a program counter      *)
(* named after the source line it is about to execute (fs_* inside         *)
(* force_subscribe, hm_* inside handle_message, dl_* inside                *)
(* download_terabox_file).  One action is the code between two calls to    *)
(* the outside world (chat platform, HTTP server), whose outcome the       *)
(* action draws with \E.  The requests calls block without yielding, so    *)
(* the interleavings of the model are a superset of the program's.         *)
(***************************************************************************)
EXTENDS Integers, Sequences, FiniteSets, TLC

\* ------------------------------------------------------------------ bounds
NumInvocations == 2
NumNames == 2
MaxChunks == 2

Inv == 1..NumInvocations
TempNames == 1..NumNames

\* ------------------------------------------------------------- characters
LowerCase == {"a","b","c","d","e","f","g","h","i","j","k","l","m",
              "n","o","p","q","r","s","t","u","v","w","x","y","z"}
UpperCase == {"A","B","C","D","E","F","G","H","I","J","K","L","M",
              "N","O","P","Q","R","S","T","U","V","W","X","Y","Z"}
Digits == {"0","1","2","3","4","5","6","7","8","9"}
WhiteSpace == {" ", "\t", "\n"}

\* [a-zA-Z0-9_-]
TokenChar == LowerCase \cup UpperCase \cup Digits \cup {"_", "-"}

\* str.strip(): drop leading and trailing whitespace
RECURSIVE LStrip(_)
LStrip(s) ==
    IF s # <<>> /\ Head(s) \in WhiteSpace THEN LStrip(Tail(s)) ELSE s

RECURSIVE RStrip(_)
RStrip(s) ==
    IF s # <<>> /\ s[Len(s)] \in WhiteSpace
    THEN RStrip(SubSeq(s, 1, Len(s) - 1)) ELSE s

Strip(s) == RStrip(LStrip(s))

\* ------------------------------------------------------ TERABOX_URL_REGEX
\* The regex engine's steps.  Each takes the text and a position and gives
\* the position after the piece, or 0 when the piece does not match there.
Lit(t, k, lit) ==
    IF k > 0 /\ k + Len(lit) - 1 <= Len(t) /\ SubSeq(t, k, k + Len(lit) - 1) = lit
    THEN k + Len(lit) ELSE 0

\* an optional piece, greedy: taken when present
Opt(t, k, lit) ==
    IF k = 0 THEN 0 ELSE IF Lit(t, k, lit) > 0 THEN Lit(t, k, lit) ELSE k

\* [a-zA-Z0-9_-]+ , greedy: the position after the longest run, 0 if empty
RECURSIVE RunEnd(_, _)
RunEnd(t, k) ==
    IF k <= Len(t) /\ t[k] \in TokenChar THEN RunEnd(t, k + 1) ELSE k

\* the token written with * where the pattern has +
Token_Star(t, k) == IF k > 0 THEN RunEnd(t, k) ELSE 0

Token(t, k) ==
    IF k > 0 /\ k <= Len(t) /\ t[k] \in TokenChar THEN RunEnd(t, k) ELSE 0

\* https?://(?:www\.)?terabox\.com/s/[a-zA-Z0-9_-]+ anchored at position k
MatchAt(t, k) ==
    LET p1 == Lit(t, k, <<"h","t","t","p">>)
        p2 == Opt(t, p1, <<"s">>)
        p3 == Lit(t, p2, <<":","/","/">>)
        p4 == Opt(t, p3, <<"w","w","w",".">>)
        p5 == Lit(t, p4, <<"t","e","r","a","b","o","x",".","c","o","m">>)
        p6 == Lit(t, p5, <<"/","s","/">>)
    IN  Token(t, p6)

NoMatch == <<>>

\* re.search(TERABOX_URL_REGEX, text) followed by match.group(1):
\* the leftmost position where the pattern matches, NoMatch if none
RECURSIVE SearchFrom(_, _)
SearchFrom(t, k) ==
    IF k > Len(t) THEN NoMatch
    ELSE IF MatchAt(t, k) > 0 THEN SubSeq(t, k, MatchAt(t, k) - 1)
    ELSE SearchFrom(t, k + 1)

Search(t) == SearchFrom(t, 1)

\* ------------------------------------------------------------------ sizes
\* A byte count is <<KiB, bytes below one KiB>>: 2 GiB does not fit the
\* integers TLC computes with, and Python's are unbounded.
KiB == 1024
MAX_TELEGRAM_FILE_SIZE == <<2 * 1024 * 1024, 0>>

SizeZero == <<0, 0>>
SizeAdd(a, b) ==
    <<a[1] + b[1] + ((a[2] + b[2]) \div KiB), (a[2] + b[2]) % KiB>>
SizeGT(a, b) == a[1] > b[1] \/ (a[1] = b[1] /\ a[2] > b[2])

\* what one step of the iter_content loop can deliver: an empty chunk, one
\* byte, or a run of chunks of 2 GiB in all
BatchSizes == {SizeZero, <<0, 1>>, MAX_TELEGRAM_FILE_SIZE}


\* ------------------------------------------------------------ environment
\* update.message.text of the messages the chat platform delivers
Texts == <<
    \* " hi "
    <<" ","h","i"," ">>,
    \* "see https://terabox.com/s/Ab_-1 ok"
    <<"s","e","e"," ","h","t","t","p","s",":","/","/","t","e","r","a","b","o",
      "x",".","c","o","m","/","s","/","A","b","_","-","1"," ","o","k">>,
    \* "http://www.terabox.com/s/x!http://terabox.com/s/y\n"
    <<"h","t","t","p",":","/","/","w","w","w",".","t","e","r","a","b","o","x",
      ".","c","o","m","/","s","/","x","!","h","t","t","p",":","/","/","t","e",
      "r","a","b","o","x",".","c","o","m","/","s","/","y","\n">>,
    \* "https://terabox.com/s/"
    <<"h","t","t","p","s",":","/","/","t","e","r","a","b","o","x",".","c","o",
      "m","/","s","/">>,
    \* "ftp://www.terabox.com/s/x"
    <<"f","t","p",":","/","/","w","w","w",".","t","e","r","a","b","o","x",".",
      "c","o","m","/","s","/","x">>
>>

\* ChatMember.status values of the chat platform
Statuses == {"creator", "administrator", "member", "restricted", "left", "kicked"}

\* what a call to the chat platform or to the HTTP server can do besides
\* returning
Raise == "raise"
SendOutcomes == {"ok", Raise}

\* the share-link page: the <title> it carries ("" for none) and whether the
\* "download_url" token is in it
Pages == [title : {"", "video.mp4"}, download_url : BOOLEAN]

\* the status codes of an HTTP response
StatusCodes == {200, 404}

\* ------------------------------------------------------------------ state
VARIABLES
    CHANNEL_USERNAME, \* module global, read from the environment at import
    fs,               \* the temporary directory: name -> [owner, size]
    accessLog,        \* history: <<operation, invocation, creator of the file>>
    pc,               \* where each invocation stands
    text,             \* handle_message: text (after strip)
    status,           \* force_subscribe: member.status
    fsret,            \* force_subscribe: the value being returned
    joined,           \* handle_message: joined
    match,            \* handle_message: match ("unbound", "None", "found")
    terabox_link,     \* handle_message: terabox_link
    replies,          \* history: the reply_* calls, <<kind, argument, outcome>>
    gets,             \* history: number of session.get calls
    page_status,      \* download_terabox_file: resp.status_code (0 before)
    dl_name,          \* download_terabox_file: file_name
    download_url,     \* download_terabox_file: download_url_match
    temp_file,        \* download_terabox_file: temp_file.name (0 before)
    dl_status,        \* download_terabox_file: download_response.status_code
    nread,            \* download_terabox_file: iterations of the chunk loop
    dlret,            \* download_terabox_file: the pair being returned
    file_path,        \* handle_message: file_path (0 for None)
    file_name,        \* handle_message: file_name
    file_size,        \* handle_message: file_size
    exc,              \* handle_message: e of the except clause
    created,          \* history: temporary files the invocation created
    removed           \* history: temporary files the invocation removed

vars == <<CHANNEL_USERNAME, fs, accessLog, pc, text, status, fsret, joined,
          match, terabox_link, replies, gets, page_status, dl_name,
          download_url, temp_file, dl_status, nread, dlret, file_path, file_name, file_size, exc, created, removed>>

gateVars == <<status, fsret, joined>>
linkVars == <<match, terabox_link>>
dlVars == <<page_status, dl_name, download_url, temp_file, dl_status, nread,
           dlret>>
fileVars == <<file_path, file_name, file_size>>
fsVars == <<fs, accessLog, created, removed>>

NoFile == [owner |-> 0, size |-> SizeZero]
NoSize == <<>>
NoRet == <<0, "None">>

Init ==
    /\ CHANNEL_USERNAME \in {"", "Joker_offical0"}
    /\ fs = [n \in TempNames |-> NoFile]
    /\ accessLog = {}
    /\ pc = [i \in Inv |-> "idle"]
    /\ text = [i \in Inv |-> <<>>]
    /\ status = [i \in Inv |-> "unbound"]
    /\ fsret = [i \in Inv |-> "unbound"]
    /\ joined = [i \in Inv |-> "unbound"]
    /\ match = [i \in Inv |-> "unbound"]
    /\ terabox_link = [i \in Inv |-> NoMatch]
    /\ replies = [i \in Inv |-> <<>>]
    /\ gets = [i \in Inv |-> 0]
    /\ page_status = [i \in Inv |-> 0]
    /\ dl_name = [i \in Inv |-> "unbound"]
    /\ download_url = [i \in Inv |-> "unbound"]
    /\ temp_file = [i \in Inv |-> 0]
    /\ dl_status = [i \in Inv |-> 0]
    /\ nread = [i \in Inv |-> 0]
    /\ dlret = [i \in Inv |-> NoRet]
    /\ file_path = [i \in Inv |-> 0]
    /\ file_name = [i \in Inv |-> "unbound"]
    /\ file_size = [i \in Inv |-> NoSize]
    /\ exc = [i \in Inv |-> "unbound"]
    /\ created = [i \in Inv |-> 0]
    /\ removed = [i \in Inv |-> 0]

Goto(i, l) == pc' = [pc EXCEPT ![i] = l]
Reply(i, kind, arg, o) ==
    replies' = [replies EXCEPT ![i] = Append(@, <<kind, arg, o>>)]

\* ------------------------------------------------------- force_subscribe
\* the runtime dispatches a text message: handle_message strips the text and
\* calls force_subscribe
Dispatch(i) ==
    /\ pc[i] = "idle"
    /\ \E k \in 1..Len(Texts) : text' = [text EXCEPT ![i] = Strip(Texts[k])]
    /\ Goto(i, "fs_49")
    /\ UNCHANGED <<CHANNEL_USERNAME, gateVars, linkVars, replies, gets, dlVars,
                   fileVars, exc, fsVars>>

Members == {"member", "administrator", "creator"}

\* if not CHANNEL_USERNAME: return True
FsCheckChannel(i) ==
    /\ pc[i] = "fs_49"
    /\ IF CHANNEL_USERNAME = ""
       THEN /\ fsret' = [fsret EXCEPT ![i] = "True"]
            /\ Goto(i, "fs_return")
       ELSE /\ Goto(i, "fs_54")
            /\ UNCHANGED fsret
    /\ UNCHANGED <<CHANNEL_USERNAME, text, status, joined, linkVars, replies,
                   gets, dlVars, fileVars, exc, fsVars>>

\* where force_subscribe goes once get_chat_member has answered st
AfterQuery(st) ==
    IF st = Raise THEN "fs_70"
    ELSE IF st \in Members THEN "fs_return" ELSE "fs_61"

\* member = await context.bot.get_chat_member(...); the status test
FsGetChatMember(i) ==
    /\ pc[i] = "fs_54"
    /\ \E st \in Statuses \cup {Raise} :
        /\ status' = [status EXCEPT ![i] = st]
        /\ Goto(i, AfterQuery(st))
        /\ fsret' = [fsret EXCEPT ![i] =
                        IF AfterQuery(st) = "fs_return" THEN "True" ELSE @]
    /\ UNCHANGED <<CHANNEL_USERNAME, text, joined, linkVars, replies, gets,
                   dlVars, fileVars, exc, fsVars>>

\* the else branch: reply_text("You must join ...", Join Now); return False.
\* The call is inside the try: an error it raises lands in the except clause.
FsReplyNotJoined(i) ==
    /\ pc[i] = "fs_61"
    /\ \E o \in SendOutcomes :
        /\ Reply(i, "join", <<"must">>, o)
        /\ IF o = "ok"
           THEN /\ fsret' = [fsret EXCEPT ![i] = "False"]
                /\ Goto(i, "fs_return")
           ELSE /\ Goto(i, "fs_70")
                /\ UNCHANGED fsret
    /\ UNCHANGED <<CHANNEL_USERNAME, text, status, joined, linkVars, gets,
                   dlVars, fileVars, exc, fsVars>>

\* the except clause: reply_text("Please join ...", Join Now); return False.
\* Nothing catches an error raised here: it leaves force_subscribe and
\* handle_message.
FsReplyExcept(i) ==
    /\ pc[i] = "fs_70"
    /\ \E o \in SendOutcomes :
        /\ Reply(i, "join", <<"please">>, o)
        /\ IF o = "ok"
           THEN /\ fsret' = [fsret EXCEPT ![i] = "False"]
                /\ Goto(i, "fs_return")
           ELSE /\ Goto(i, "raised")
                /\ UNCHANGED fsret
    /\ UNCHANGED <<CHANNEL_USERNAME, text, status, joined, linkVars, gets,
                   dlVars, fileVars, exc, fsVars>>


\* -------------------------------------------------------- handle_message
\* handle_message without its "if not joined: return"
AfterGate_NoReturn(j) == "hm_92"

\* where handle_message goes once force_subscribe has returned j
AfterGate(j) == IF j = "False" THEN "done" ELSE "hm_92"

\* joined = await force_subscribe(...); if not joined: return
HmAfterGate(i) ==
    /\ pc[i] = "fs_return"
    /\ joined' = [joined EXCEPT ![i] = fsret[i]]
    /\ status' = [status EXCEPT ![i] = "unbound"]
    /\ fsret' = [fsret EXCEPT ![i] = "unbound"]
    /\ Goto(i, AfterGate(fsret[i]))
    /\ UNCHANGED <<CHANNEL_USERNAME, text, linkVars, replies, gets, dlVars,
                   fileVars, exc, fsVars>>

\* match = re.search(TERABOX_URL_REGEX, text); terabox_link = match.group(1)
HmExtract(i) ==
    /\ pc[i] = "hm_92"
    /\ IF Search(text[i]) = NoMatch
       THEN /\ match' = [match EXCEPT ![i] = "None"]
            /\ Goto(i, "hm_94")
            /\ UNCHANGED terabox_link
       ELSE /\ match' = [match EXCEPT ![i] = "found"]
            /\ terabox_link' = [terabox_link EXCEPT ![i] = Search(text[i])]
            /\ Goto(i, "hm_98")
    /\ UNCHANGED <<CHANNEL_USERNAME, text, gateVars, replies, gets, dlVars,
                   fileVars, exc, fsVars>>

\* reply_text("Please send a valid Terabox link ..."); return.  Outside the
\* try: an error of the send leaves handle_message.
HmReplyHint(i) ==
    /\ pc[i] = "hm_94"
    /\ \E o \in SendOutcomes :
        /\ Reply(i, "hint", <<>>, o)
        /\ Goto(i, IF o = "ok" THEN "done" ELSE "raised")
    /\ UNCHANGED <<CHANNEL_USERNAME, text, gateVars, linkVars, gets, dlVars,
                   fileVars, exc, fsVars>>

\* where an error of the acknowledgment send goes: the call is above the try
AckRaised == "raised"

\* reply_text("Downloading file from: {terabox_link} ...")
HmReplyAck(i) ==
    /\ pc[i] = "hm_98"
    /\ \E o \in SendOutcomes :
        /\ Reply(i, "ack", terabox_link[i], o)
        /\ Goto(i, IF o = "ok" THEN "dl_139" ELSE AckRaised)
    /\ UNCHANGED <<CHANNEL_USERNAME, text, gateVars, linkVars, gets, dlVars,
                   fileVars, exc, fsVars>>


\* -------------------------------------------------- download_terabox_file
\* the filesystem calls
Create(f, n, i) == [f EXCEPT ![n] = [owner |-> i, size |-> SizeZero]]
Write(f, n, b) == [f EXCEPT ![n].size = SizeAdd(@, b)]
OsUnlink_Skipped(f, n) == f
OsUnlink(f, n) == [f EXCEPT ![n] = NoFile]
OsRemove(f, n) == [f EXCEPT ![n] = NoFile]
Exists(f, n) == n \in DOMAIN f /\ f[n].owner # 0

Logged(op, i, n) == accessLog \cup {<<op, i, fs[n].owner>>}

\* file_name: group 1 of the <title> pattern, stripped, or the default
FileNameOf(page) == IF page.title # "" THEN page.title ELSE "terabox_file"

\* download_terabox_file returns (None, None)
ReturnNone(i) ==
    /\ dlret' = [dlret EXCEPT ![i] = NoRet]
    /\ Goto(i, "dl_return")

\* resp = session.get(terabox_link); the status test; the two pattern
\* searches on resp.text.  An error of the GET lands in except Exception.
DlGetPage(i) ==
    /\ pc[i] = "dl_139"
    /\ gets' = [gets EXCEPT ![i] = @ + 1]
    /\ \/ /\ ReturnNone(i)
          /\ UNCHANGED <<page_status, dl_name, download_url>>
       \/ \E code \in StatusCodes \ {200} :
            /\ page_status' = [page_status EXCEPT ![i] = code]
            /\ ReturnNone(i)
            /\ UNCHANGED <<dl_name, download_url>>
       \/ \E page \in Pages :
            /\ page_status' = [page_status EXCEPT ![i] = 200]
            /\ dl_name' = [dl_name EXCEPT ![i] = FileNameOf(page)]
            /\ IF page.download_url
               THEN /\ download_url' = [download_url EXCEPT ![i] = "found"]
                    /\ Goto(i, "dl_162")
                    /\ UNCHANGED dlret
               ELSE /\ download_url' = [download_url EXCEPT ![i] = "None"]
                    /\ ReturnNone(i)
    /\ UNCHANGED <<CHANNEL_USERNAME, text, gateVars, linkVars, replies,
                   temp_file, dl_status, nread, fileVars, exc, fsVars>>

\* temp_file = NamedTemporaryFile(delete=False): a name no file has;
\* download_response = session.get(download_url, stream=True); on a status
\* other than 200 the file is closed and unlinked.  An error of the GET lands
\* in except Exception, which returns without touching the file.
DlDownload(i) ==
    /\ pc[i] = "dl_162"
    /\ \E n \in TempNames :
        /\ ~Exists(fs, n)
        /\ temp_file' = [temp_file EXCEPT ![i] = n]
        /\ created' = [created EXCEPT ![i] = @ + 1]
        /\ gets' = [gets EXCEPT ![i] = @ + 1]
        /\ \/ /\ fs' = Create(fs, n, i)
              /\ ReturnNone(i)
              /\ UNCHANGED <<dl_status, removed, accessLog>>
           \/ \E code \in StatusCodes \ {200} :
                /\ dl_status' = [dl_status EXCEPT ![i] = code]
                /\ fs' = OsUnlink(Create(fs, n, i), n)
                /\ removed' = [removed EXCEPT ![i] = @ + 1]
                /\ accessLog' = accessLog \cup {<<"unlink", i, i>>}
                /\ ReturnNone(i)
           \/ /\ dl_status' = [dl_status EXCEPT ![i] = 200]
              /\ fs' = Create(fs, n, i)
              /\ Goto(i, "dl_169")
              /\ UNCHANGED <<dlret, removed, accessLog>>
    /\ UNCHANGED <<CHANNEL_USERNAME, text, gateVars, linkVars, replies,
                   page_status, dl_name, download_url, nread, fileVars, exc>>

\* one turn of: for chunk in iter_content(...): if chunk: temp_file.write(chunk)
DlWriteChunk(i) ==
    /\ pc[i] = "dl_169"
    /\ nread[i] < MaxChunks
    /\ \E b \in BatchSizes :
        fs' = IF b # SizeZero THEN Write(fs, temp_file[i], b) ELSE fs
    /\ nread' = [nread EXCEPT ![i] = @ + 1]
    /\ UNCHANGED <<CHANNEL_USERNAME, pc, text, gateVars, linkVars, replies,
                   gets, page_status, dl_name, download_url, temp_file,
                   dl_status, dlret, fileVars, exc, accessLog, created,
                   removed>>

\* iter_content or write raises: except Exception returns (None, None)
DlStreamRaise(i) ==
    /\ pc[i] = "dl_169"
    /\ ReturnNone(i)
    /\ UNCHANGED <<CHANNEL_USERNAME, text, gateVars, linkVars, replies, gets,
                   page_status, dl_name, download_url, temp_file, dl_status,
                   nread, fileVars, exc, fsVars>>

\* the stream ends: temp_file.close(); return temp_file.name, file_name
DlFinish(i) ==
    /\ pc[i] = "dl_169"
    /\ dlret' = [dlret EXCEPT ![i] = <<temp_file[i], dl_name[i]>>]
    /\ Goto(i, "dl_return")
    /\ UNCHANGED <<CHANNEL_USERNAME, text, gateVars, linkVars, replies, gets,
                   page_status, dl_name, download_url, temp_file, dl_status,
                   nread, fileVars, exc, fsVars>>

\* ------------------------------------------- handle_message, the try block
\* where handle_message goes with the value download_terabox_file returned
AfterDownload(path, size) ==
    IF path = 0 THEN "hm_104"
    ELSE IF SizeGT(size, MAX_TELEGRAM_FILE_SIZE) THEN "hm_109" ELSE "hm_115"

\* file_path, file_name = await download_terabox_file(...); the None test;
\* file_size = os.path.getsize(file_path); the size test
HmAfterDownload(i) ==
    /\ pc[i] = "dl_return"
    /\ file_path' = [file_path EXCEPT ![i] = dlret[i][1]]
    /\ file_name' = [file_name EXCEPT ![i] = dlret[i][2]]
    /\ IF dlret[i][1] = 0
       THEN /\ Goto(i, AfterDownload(0, SizeZero))
            /\ UNCHANGED <<file_size, accessLog>>
       ELSE /\ file_size' = [file_size EXCEPT ![i] = fs[dlret[i][1]].size]
            /\ accessLog' = Logged("getsize", i, dlret[i][1])
            /\ Goto(i, AfterDownload(dlret[i][1], fs[dlret[i][1]].size))
    /\ page_status' = [page_status EXCEPT ![i] = 0]
    /\ dl_name' = [dl_name EXCEPT ![i] = "unbound"]
    /\ download_url' = [download_url EXCEPT ![i] = "unbound"]
    /\ temp_file' = [temp_file EXCEPT ![i] = 0]
    /\ dl_status' = [dl_status EXCEPT ![i] = 0]
    /\ nread' = [nread EXCEPT ![i] = 0]
    /\ dlret' = [dlret EXCEPT ![i] = NoRet]
    /\ UNCHANGED <<CHANNEL_USERNAME, text, gateVars, linkVars, replies, gets,
                   exc, fs, created, removed>>

\* handle_message without its except clause
TryRaised_Uncaught == "raised"

\* where an error raised inside the try goes: except Exception as e
TryRaised == "hm_119"

\* a send inside the try raised: e is bound, control is in the except clause
Caught(i, call) ==
    /\ exc' = [exc EXCEPT ![i] = call]
    /\ Goto(i, TryRaised)

\* reply_text("Failed to download the file ..."); return
HmReplyFailed(i) ==
    /\ pc[i] = "hm_104"
    /\ \E o \in SendOutcomes :
        /\ Reply(i, "failed", <<>>, o)
        /\ IF o = "ok" THEN Goto(i, "done") /\ UNCHANGED exc
           ELSE Caught(i, "reply_text")
    /\ UNCHANGED <<CHANNEL_USERNAME, text, gateVars, linkVars, gets, dlVars,
                   fileVars, fsVars>>

\* reply_text("the file is too large ..."); os.remove(file_path); return
HmReplyTooLarge(i) ==
    /\ pc[i] = "hm_109"
    /\ \E o \in SendOutcomes :
        /\ Reply(i, "too_large", <<>>, o)
        /\ IF o = "ok"
           THEN /\ fs' = OsRemove(fs, file_path[i])
                /\ removed' = [removed EXCEPT ![i] = @ + 1]
                /\ accessLog' = Logged("remove", i, file_path[i])
                /\ Goto(i, "done")
                /\ UNCHANGED exc
           ELSE /\ Caught(i, "reply_text")
                /\ UNCHANGED <<fs, removed, accessLog>>
    /\ UNCHANGED <<CHANNEL_USERNAME, text, gateVars, linkVars, gets, dlVars,
                   fileVars, created>>

\* reply_document(document=open(file_path, "rb"), filename=file_name);
\* os.remove(file_path)
HmReplyDocument(i) ==
    /\ pc[i] = "hm_115"
    /\ Exists(fs, file_path[i])
    /\ \E o \in SendOutcomes :
        /\ Reply(i, "document", <<file_name[i]>>, o)
        /\ IF o = "ok"
           THEN /\ fs' = OsRemove(fs, file_path[i])
                /\ removed' = [removed EXCEPT ![i] = @ + 1]
                /\ accessLog' = Logged("open", i, file_path[i])
                                  \cup {<<"remove", i, fs[file_path[i]].owner>>}
                /\ Goto(i, "done")
                /\ UNCHANGED exc
           ELSE /\ Caught(i, "reply_document")
                /\ accessLog' = Logged("open", i, file_path[i])
                /\ UNCHANGED <<fs, removed>>
    /\ UNCHANGED <<CHANNEL_USERNAME, text, gateVars, linkVars, gets, dlVars,
                   fileVars, created>>

\* except Exception as e: reply_text(f"Error during download or upload: {e}").
\* Nothing catches an error raised here.
HmReplyError(i) ==
    /\ pc[i] = "hm_119"
    /\ \E o \in SendOutcomes :
        /\ Reply(i, "error", <<exc[i]>>, o)
        /\ Goto(i, IF o = "ok" THEN "done" ELSE "raised")
    /\ UNCHANGED <<CHANNEL_USERNAME, text, gateVars, linkVars, gets, dlVars,
                   fileVars, exc, fsVars>>

\* ---------------------------------------------------------- specification
Step(i) ==
        \/ Dispatch(i)
        \/ FsCheckChannel(i)
        \/ FsGetChatMember(i)
        \/ FsReplyNotJoined(i)
        \/ FsReplyExcept(i)
        \/ HmAfterGate(i)
        \/ HmExtract(i)
        \/ HmReplyHint(i)
        \/ HmReplyAck(i)
        \/ DlGetPage(i)
        \/ DlDownload(i)
        \/ DlWriteChunk(i)
        \/ DlStreamRaise(i)
        \/ DlFinish(i)
        \/ HmAfterDownload(i)
        \/ HmReplyFailed(i)
        \/ HmReplyTooLarge(i)
        \/ HmReplyDocument(i)
        \/ HmReplyError(i)

\* the runtime runs the invocations as coroutines of one event loop
Next == \E i \in Inv : Step(i)

Spec == Init /\ [][Next]_vars

\* one message, handled alone
NextOne == Step(1)

SpecOne == Init /\ [][NextOne]_vars

\* an invocation has ended: it returned, or an error left it
Ended(i) == pc[i] \in {"done", "raised"}


\* ----------------------------------------------------------------- claims
Kind(r) == r[1]
Arg(r) == r[2]
Outcome(r) == r[3]

HasReply(i, kind) == \E k \in DOMAIN replies[i] : Kind(replies[i][k]) = kind
CountReplies(i, kind) ==
    Cardinality({k \in DOMAIN replies[i] : Kind(replies[i][k]) = kind})

\* the temporary files invocation i created that are still there
OwnedFiles(i) == {n \in TempNames : fs[n].owner = i}

\* C1: when an invocation has ended, however it ended, every temporary file
\* it created has been removed, once: none survives it.
C1_TempFilesRemoved ==
    \A i \in Inv :
        Ended(i) => removed[i] = created[i] /\ OwnedFiles(i) = {}

\* C2: when a group is configured and the gate denies, handle_message has
\* sent the join prompt and stops: no link extraction, no acknowledgment, no
\* HTTP request, no temporary file, no document.
C2_DenyStops ==
    \A i \in Inv :
        joined[i] = "False" =>
            /\ CHANNEL_USERNAME # ""
            /\ pc[i] = "done"
            /\ replies[i] # <<>>
            /\ \A k \in DOMAIN replies[i] : Kind(replies[i][k]) = "join"
            /\ Outcome(replies[i][Len(replies[i])]) = "ok"
            /\ match[i] = "unbound"
            /\ terabox_link[i] = NoMatch
            /\ gets[i] = 0
            /\ created[i] = 0
            /\ file_path[i] = 0

C2_Witness ==
    \E i \in Inv : joined[i] = "False" /\ pc[i] = "done"

\* the share-link pattern as a language: a scheme, "://", an optional
\* "www.", the host, "/s/", then one or more token characters
SharePrefixes ==
    { sch \o <<":","/","/">> \o www
          \o <<"t","e","r","a","b","o","x",".","c","o","m","/","s","/">> :
      sch \in {<<"h","t","t","p">>, <<"h","t","t","p","s">>},
      www \in {<<>>, <<"w","w","w",".">>} }

IsShareLink(s) ==
    \E p \in SharePrefixes :
        /\ Len(s) > Len(p)
        /\ SubSeq(s, 1, Len(p)) = p
        /\ \A k \in (Len(p) + 1)..Len(s) : s[k] \in TokenChar

ContainsShareLink(t) ==
    \E a \in 1..Len(t) : \E b \in a..Len(t) : IsShareLink(SubSeq(t, a, b))

\* C3: for a text that passed the gate and has no substring matching the
\* share-link pattern, handle_message replies with the format hint and ends:
\* no HTTP GET, no temporary file.
C3_NoLinkNoFetch ==
    \A i \in Inv :
        (joined[i] = "True" /\ match[i] # "unbound"
            /\ ~ContainsShareLink(text[i])) =>
            /\ pc[i] \in {"hm_94", "done", "raised"}
            /\ match[i] = "None"
            /\ pc[i] = "hm_94" => replies[i] = <<>>
            /\ pc[i] # "hm_94" =>
                   /\ Len(replies[i]) = 1
                   /\ Kind(replies[i][1]) = "hint"
                   /\ (pc[i] = "done") = (Outcome(replies[i][1]) = "ok")
            /\ gets[i] = 0
            /\ created[i] = 0
            /\ OwnedFiles(i) = {}

C3_Witness ==
    \E i \in Inv :
        /\ pc[i] = "done"
        /\ joined[i] = "True"
        /\ match[i] = "None"
        /\ text[i] # <<>>
        /\ ~ContainsShareLink(text[i])
        /\ HasReply(i, "hint")

\* C4: force_subscribe returns allow exactly when no group is configured
\* (then without a query and without a reply) or the query answers member,
\* administrator or creator; everything else is deny, and no error leaves
\* force_subscribe.
C4_GateDecides ==
    \A i \in Inv :
        /\ pc[i] = "fs_return" =>
              /\ fsret[i] \in {"True", "False"}
              /\ (fsret[i] = "True") =
                     (CHANNEL_USERNAME = "" \/ status[i] \in Members)
              /\ CHANNEL_USERNAME = "" =>
                     status[i] = "unbound" /\ replies[i] = <<>>
        /\ ~(pc[i] = "raised" /\ joined[i] = "unbound")

\* C5: on every deny of force_subscribe exactly one join-prompt reply_text
\* call was made.
C5_OneJoinPrompt ==
    \A i \in Inv :
        (pc[i] = "fs_return" /\ fsret[i] = "False") =>
            CountReplies(i, "join") = 1

\* the sends of step 3 and step 4
Step3Kinds == {"ack"}
Step4Kinds == {"failed", "too_large", "document"}

\* the error reply that answers the send at place k of the log
Answered(i, k) ==
    \/ pc[i] = "hm_119" /\ k = Len(replies[i])
    \/ /\ k < Len(replies[i])
       /\ Kind(replies[i][k + 1]) = "error"
       /\ Arg(replies[i][k + 1]) =
              <<IF Kind(replies[i][k]) = "document"
                THEN "reply_document" ELSE "reply_text">>

\* C6, as stated: every error raised in step 3 or step 4 is caught in
\* handle_message and answered with the error reply; none leaves
\* handle_message.
C6_Steps3And4Caught ==
    \A i \in Inv : \A k \in DOMAIN replies[i] :
        (Kind(replies[i][k]) \in Step3Kinds \cup Step4Kinds
            /\ Outcome(replies[i][k]) = Raise) => Answered(i, k)

\* C6, amended: an error raised by a send of step 4 is caught in
\* handle_message and answered with the error reply carrying its text; an
\* error of the acknowledgment send of step 3 is not caught and leaves
\* handle_message, as does an error of the error reply itself.
C6_Step4Caught ==
    \A i \in Inv :
        /\ \A k \in DOMAIN replies[i] :
              Outcome(replies[i][k]) = Raise =>
                  /\ Kind(replies[i][k]) \in Step4Kinds => Answered(i, k)
                  /\ Kind(replies[i][k]) \in Step3Kinds =>
                         pc[i] = "raised" /\ k = Len(replies[i])
        /\ (pc[i] = "raised" /\ match[i] = "found") =>
              /\ Kind(replies[i][Len(replies[i])]) \in {"ack", "error"}
              /\ Outcome(replies[i][Len(replies[i])]) = Raise

C6_Witness ==
    \E i \in Inv :
        /\ pc[i] = "done"
        /\ Len(replies[i]) = 3
        /\ Kind(replies[i][2]) = "document"
        /\ Outcome(replies[i][2]) = Raise
        /\ replies[i][3] = <<"error", <<"reply_document">>, "ok">>

\* C7: an artifact of more than 2 GiB is answered with the size-limit reply,
\* is never sent, and its file is gone when the invocation ends; an artifact
\* of 2 GiB or less is not rejected on size.
C7_OversizeRejected ==
    \A i \in Inv :
        (Ended(i) /\ file_size[i] # NoSize) =>
            IF SizeGT(file_size[i], MAX_TELEGRAM_FILE_SIZE)
            THEN /\ HasReply(i, "too_large")
                 /\ ~HasReply(i, "document")
                 /\ OwnedFiles(i) = {}
            ELSE ~HasReply(i, "too_large")

\* C8: an artifact within the limit is sent as a document under its display
\* name, and its file is deleted after the send whatever the send's outcome.
C8_SentThenDeleted ==
    \A i \in Inv :
        (Ended(i) /\ file_size[i] # NoSize
            /\ ~SizeGT(file_size[i], MAX_TELEGRAM_FILE_SIZE)) =>
            /\ \E k \in DOMAIN replies[i] :
                  /\ Kind(replies[i][k]) = "document"
                  /\ Arg(replies[i][k]) = <<file_name[i]>>
            /\ OwnedFiles(i) = {}

\* C9: when the page lacks the download-URL token, or the download GET
\* answers a status other than 200, download_terabox_file returns
\* (None, None) and no temporary file of that call exists: none was created
\* in the first case, the one created was unlinked in the second.
C9_NoArtifactNoFile ==
    \A i \in Inv :
        pc[i] = "dl_return" =>
            /\ (page_status[i] = 200 /\ download_url[i] = "None") =>
                  /\ dlret[i] = NoRet
                  /\ temp_file[i] = 0
                  /\ created[i] = 0
                  /\ OwnedFiles(i) = {}
            /\ dl_status[i] \notin {0, 200} =>
                  /\ dlret[i] = NoRet
                  /\ created[i] = 1
                  /\ removed[i] = 1
                  /\ temp_file[i] # 0
                  /\ OwnedFiles(i) = {}

C9_Witness ==
    \E i \in Inv :
        /\ pc[i] = "dl_return"
        /\ dl_status[i] = 404
        /\ created[i] = 1

\* C10: under any interleaving every temporary file is touched by the
\* invocation that created it and by no other, and none is left once its
\* creator has ended.
C10_OwnFileOnly ==
    /\ \A a \in accessLog : a[2] = a[3]
    /\ \A i \in Inv : Ended(i) => OwnedFiles(i) = {}

====
